---------------------------- MODULE Spec2Model ----------------------------
(***************************************************************************)
(* Model of atams/middleware/rate_limiter.py: the in-memory RateLimiter    *)
(* (is_allowed, cleanup_expired) and ConfiguredRateLimitMiddleware.        *)
(*                                                                         *)
(* Three specifications share the limiter's state:                         *)
(*   Spec         calls of is_allowed / cleanup_expired run one at a time; *)
(*   ThreadSpec   the same methods run by parallel threads, one shared     *)
(*                access of self.clients per step (the code takes no lock);*)
(*   TaskSpec     the middleware's dispatch run by cooperative tasks that  *)
(*                interleave only at "await call_next(request)".           *)
(* Time is an integer clock `now`; time.time() reads it.                   *)
(***************************************************************************)
EXTENDS Integers, FiniteSets, Sequences, TLC

\* ------------------------------------------------------------------ bounds
MaxRequests == 3
MaxWindow == 2
MaxTime == 5
\* how far the clock may move between the two time.time() reads of one
\* is_allowed call on a missing client (line 55 and the default factory)
MaxSkew == 1
\* the per-client call number saturates here (always above MaxRequests + 1)
CallCap == MaxRequests + 2
\* parallel threads calling is_allowed, and the calls they make in all
NumThreads == 2
MaxThreadCalls == 3
\* how long the clock runs while the threads are observed
MaxThreadTime == 2
\* cooperative tasks running dispatch, and the requests they take in all
NumTasks == 2
MaxDispatches == 3
\* how long the clock runs while the tasks are observed
MaxTaskTime == 3
\* how long the clock runs while the calls are observed over time
MaxHistTime == 3
\* the configurations of the runs that never end (LiveSpec)
MaxLiveRequests == 1
MaxLiveWindow == 1
\* faulty variant: the threshold is one too high
CLEANUP_INTERVAL_late == 100 + 1
\* line 167: the sweep runs when the cleanup counter reaches 100
CLEANUP_INTERVAL == 100

\* client ids: two addresses, and the id of a request without an address
Callers == {"A", "B"}
Clients == Callers \cup {"unknown"}
NoClient == "-"

VARIABLES
    requests,      \* RateLimiter.requests  (max requests per window)
    window,        \* RateLimiter.window    (window length)
    now,           \* the clock read by time.time()
    clients,       \* RateLimiter.clients: client id -> (count, window_start)
    \* ---- observation of the calls (history variables, not program state)
    last,          \* the most recent limiter call: input, pre-state, result
    callNo,        \* per client: number of the call within a fresh, unreset entry
    deniedSince,   \* per client: a call was denied since window_start was set
    admitted,      \* per client: calls allowed since window_start was set
    solo,          \* per client: its entry in a run where only it calls
    \* ---- parallel threads (ThreadSpec)
    pc,            \* per calling thread: its place in is_allowed
    tclient,       \* per calling thread: client_id
    tcur,          \* per calling thread: current_time (line 55)
    tread,         \* per calling thread: (count, window_start) read at line 56
    spc,           \* the sweeping thread's place in cleanup_expired
    scur,          \* the sweeping thread's current_time (line 75)
    ssize,         \* the dict's size when the sweep's iterator was created
    sseen,         \* the items the sweep's iterator has yielded so far
    sexp,          \* expired_clients not yet deleted
    tcalls,        \* per client: calls of is_allowed that returned (history)
    tallowed,      \* per client: calls that returned allowed=true (history)
    slost,         \* the sweep deleted an entry written after it read it (history)
    \* ---- the middleware (TaskSpec)
    enabled,         \* ConfiguredRateLimitMiddleware.enabled
    cleanup_counter, \* ConfiguredRateLimitMiddleware.cleanup_counter
    kpc,             \* per task: its place in dispatch
    kreq,            \* per task: the request (path, client host)
    kremaining,      \* per task: remaining, as returned to it at line 134
    kout,            \* what the dispatch that ended last gave back (history)
    dispatched,      \* requests taken so far (history)
    checked,         \* requests that reached the check of line 134 (history)
    sweeps,          \* calls of cleanup_expired made by dispatch (history)
    stopped,         \* client "A" sends no request any more (LiveSpec)
    beat,            \* flips with every request dispatch takes (LiveSpec)
    \* ---- observation of sequential calls over time (HistSpec)
    recent,        \* per client: allowed calls at each of the last window + 1 ticks
    deniedAt,      \* per client: time of its latest call if that was denied, else -1
    plain,         \* the mapping in the run where no sweep is ever made
    evicted,       \* clients whose entry a sweep removed, and who did not call since
    hlast          \* the most recent call: as seen in plain, and whether evicted

limiterVars == <<requests, window, now, clients>>
threadVars == <<pc, tclient, tcur, tread, spc, scur, ssize, sseen, sexp,
                tcalls, tallowed, slost>>
mwVars == <<enabled, cleanup_counter, kpc, kreq, kremaining, kout, dispatched,
            checked, sweeps, stopped, beat>>
histVars == <<recent, deniedAt, plain, evicted, hlast>>
vars == <<requests, window, now, clients, last, callNo, deniedSince, admitted, solo,
          pc, tclient, tcur, tread, spc, scur, ssize, sseen, sexp,
          tcalls, tallowed, slost,
          enabled, cleanup_counter, kpc, kreq, kremaining, kout, dispatched,
          checked, sweeps, stopped, beat, recent, deniedAt, plain, evicted, hlast>>

\* ------------------------------------------------------------ limiter core
\* a stored tuple (request_count, window_start_time)
Entry(count, window_start) == [count |-> count, window_start |-> window_start]

\* faulty variant: the factory's window starts at the epoch, not at the
\* clock's time
Lookup_epoch(cl, client_id, factory_time) ==
    IF client_id \in DOMAIN cl
    THEN cl
    ELSE cl @@ (client_id :> [count |-> 0, window_start |-> 0])


\* self.clients[client_id] on a defaultdict: a missing key is inserted with
\* the factory's value (0, time.time()), the factory's clock read being
\* factory_time
Lookup(cl, client_id, factory_time) ==
    IF client_id \in DOMAIN cl
    THEN cl
    ELSE cl @@ (client_id :> Entry(0, factory_time))

\* faulty variant: the window test made strict
WindowExpired_strict(current_time, window_start) ==
    current_time - window_start > window

\* line 59: current_time - window_start >= self.window
WindowExpired(current_time, window_start) ==
    current_time - window_start >= window

\* faulty variant: the limit test made strict (one request too many)
LimitExceeded_strict(count) == count > requests

\* line 65: count >= self.requests
LimitExceeded(count) == count >= requests

\* faulty variant: the increment branch also restarts the window
Incremented_restart(count, window_start, current_time) ==
    Entry(count + 1, current_time)

\* line 70: (count + 1, window_start)
Incremented(count, window_start, current_time) ==
    Entry(count + 1, window_start)

\* faulty variant: a denied call counts too
Denied_counting(cl, client_id) ==
    [cl EXCEPT ![client_id] = Entry(@.count + 1, @.window_start)]

\* lines 65-67: a denied call writes nothing
Denied(cl, client_id) == cl

\* faulty variant: the reset clears every client's window
ResetWrite_all(cl, client_id, current_time) ==
    [k \in DOMAIN cl \cup {client_id} |->
        Entry(IF k = client_id THEN 1 ELSE 0, current_time)]

\* line 61: self.clients[client_id] = (1, current_time)
ResetWrite(cl, client_id, current_time) ==
    (client_id :> Entry(1, current_time)) @@ cl

\* lines 58-71, on the values read at line 56: the mapping written and the
\* tuple returned
Decide(cl, client_id, count, window_start, current_time) ==
    IF WindowExpired(current_time, window_start)
    THEN [clients |-> ResetWrite(cl, client_id, current_time),
          allowed |-> TRUE, remaining |-> requests - 1, branch |-> "reset"]
    ELSE IF LimitExceeded(count)
    THEN [clients |-> Denied(cl, client_id),
          allowed |-> FALSE, remaining |-> 0, branch |-> "deny"]
    ELSE [clients |-> (client_id :> Incremented(count, window_start, current_time)) @@ cl,
          allowed |-> TRUE, remaining |-> requests - (count + 1),
          branch |-> "increment"]

\* RateLimiter.is_allowed run without interruption: current_time is the
\* clock read at line 55, factory_time the default factory's read
is_allowed(cl, client_id, current_time, factory_time) ==
    LET looked == Lookup(cl, client_id, factory_time)
    IN Decide(looked, client_id, looked[client_id].count,
              looked[client_id].window_start, current_time)

\* faulty variant: the sweep threshold is one window instead of two
SweepExpired_once(current_time, window_start) ==
    current_time - window_start >= window

\* line 78: current_time - window_start >= self.window * 2
SweepExpired(current_time, window_start) ==
    current_time - window_start >= window * 2

\* lines 76-79: expired_clients
expired_clients(cl, current_time) ==
    {k \in DOMAIN cl : SweepExpired(current_time, cl[k].window_start)}

\* faulty variant: the expired entries are kept, their count set to zero
Without_zeroed(cl, gone) ==
    [k \in DOMAIN cl |-> IF k \in gone THEN Entry(0, cl[k].window_start) ELSE cl[k]]


\* the mapping with the keys of `gone` deleted
Without(cl, gone) == [k \in DOMAIN cl \ gone |-> cl[k]]

\* RateLimiter.cleanup_expired run without interruption
cleanup_expired(cl, current_time) == Without(cl, expired_clients(cl, current_time))

\* ------------------------------------------------------------ observation
NoCall ==
    [op |-> "none", client |-> NoClient, time |-> 0, pre |-> <<>>,
     allowed |-> FALSE, remaining |-> 0, branch |-> "none",
     deniedBefore |-> FALSE, soloAllowed |-> FALSE, soloRemaining |-> 0]

Min(a, b) == IF a < b THEN a ELSE b

Only(cl, client_id) == [k \in DOMAIN cl \cap {client_id} |-> cl[k]]

\* whether the call gave client c's entry a new window_start (or created it)
NewWindow(pre, post, c) ==
    \/ c \notin DOMAIN pre
    \/ post[c].window_start # pre[c].window_start

\* the history variables after is_allowed(c) returned r
Observe(c, current_time, factory_time, r) ==
    LET fresh == c \notin DOMAIN clients
        s == is_allowed(Only(solo, c), c, current_time, factory_time)
        started == NewWindow(clients, r.clients, c) \/ r.branch = "reset"
    IN
    /\ last' = [op |-> "is_allowed", client |-> c, time |-> current_time,
                pre |-> clients, allowed |-> r.allowed,
                remaining |-> r.remaining, branch |-> r.branch,
                deniedBefore |-> deniedSince[c],
                soloAllowed |-> s.allowed, soloRemaining |-> s.remaining]
    /\ callNo' = [callNo EXCEPT ![c] =
                    IF fresh THEN 1
                    ELSE IF r.branch = "reset" \/ @ = 0 THEN 0
                    ELSE Min(@ + 1, CallCap)]
    /\ deniedSince' = [deniedSince EXCEPT ![c] =
                    IF started THEN ~r.allowed ELSE @ \/ ~r.allowed]
    /\ admitted' = [admitted EXCEPT ![c] =
                    (IF started THEN 0 ELSE @) + (IF r.allowed THEN 1 ELSE 0)]
    /\ solo' = s.clients @@ solo

\* ---------------------------------------------------------------- actions
Threads == 1..NumThreads
NoEntry == Entry(0, 0)

\* RateLimiter.__init__, any configuration: the mapping starts empty
InitLimiter ==
    /\ requests \in 0..MaxRequests
    /\ window \in 0..MaxWindow
    /\ now = 0
    /\ clients = <<>>
    /\ last = NoCall
    /\ callNo = [c \in Clients |-> 0]
    /\ deniedSince = [c \in Clients |-> FALSE]
    /\ admitted = [c \in Clients |-> 0]
    /\ solo = <<>>

\* no thread is inside a method
InitThreads ==
    /\ pc = [t \in Threads |-> "idle"]
    /\ tclient = [t \in Threads |-> NoClient]
    /\ tcur = [t \in Threads |-> 0]
    /\ tread = [t \in Threads |-> NoEntry]
    /\ spc = "idle"
    /\ scur = 0
    /\ ssize = 0
    /\ sseen = <<>>
    /\ sexp = {}
    /\ tcalls = [c \in Clients |-> 0]
    /\ tallowed = [c \in Clients |-> 0]
    /\ slost = FALSE

Tasks == 1..NumTasks
NoHost == "None"
NoRequest == [path |-> "-", host |-> NoHost]
NoOutcome ==
    [task |-> 0, request |-> NoRequest, status |-> 0, forwarded |-> FALSE,
     headers |-> <<>>, detail |-> <<>>]

\* ConfiguredRateLimitMiddleware.__init__ (lines 113-119); no request in flight
InitMiddleware ==
    /\ cleanup_counter = 0
    /\ kpc = [k \in Tasks |-> "idle"]
    /\ kreq = [k \in Tasks |-> NoRequest]
    /\ kremaining = [k \in Tasks |-> 0]
    /\ kout = NoOutcome
    /\ dispatched = 0
    /\ checked = 0
    /\ sweeps = 0
    /\ stopped = FALSE
    /\ beat = FALSE

\* the ages (in ticks, 0 = now) at which allowed calls are remembered: those
\* of a closed interval of length window; none for a window of length 0
Ages == IF window = 0 THEN {} ELSE 0..window

NoHistory == [evicted |-> FALSE, allowed |-> FALSE, remaining |-> 0, deniedAt |-> -1]

\* nothing has been observed yet
InitHistory ==
    /\ recent = [c \in Clients |-> [a \in Ages |-> 0]]
    /\ deniedAt = [c \in Clients |-> -1]
    /\ plain = <<>>
    /\ evicted = {}
    /\ hlast = NoHistory

Init == InitLimiter /\ InitThreads /\ InitMiddleware /\ InitHistory /\ enabled = TRUE

\* time passes
Tick ==
    /\ now < MaxTime
    /\ now' = now + 1
    /\ UNCHANGED <<requests, window, clients, last, callNo, deniedSince, admitted, solo>>
    /\ UNCHANGED threadVars
    /\ UNCHANGED mwVars
    /\ UNCHANGED histVars

\* is_allowed(c) run as a whole: the limiter's state and the clock after it.
\* On a missing client the clock may move by d between the read of line 55
\* and the default factory's read
IsAllowedStep(c) ==
    \E d \in 0..MaxSkew :
        /\ c \in DOMAIN clients => d = 0
        /\ now + d <= MaxTime
        /\ LET r == is_allowed(clients, c, now, now + d)
           IN /\ clients' = r.clients
              /\ Observe(c, now, now + d, r)
        /\ now' = now + d

\* cleanup_expired() run as a whole: the limiter's state after it
CleanupStep ==
    /\ clients' = cleanup_expired(clients, now)
    /\ solo' = cleanup_expired(solo, now)
    /\ last' = [NoCall EXCEPT !.op = "cleanup_expired", !.time = now, !.pre = clients]
    /\ callNo' = [c \in Clients |-> IF c \in DOMAIN clients' THEN callNo[c] ELSE 0]
    /\ admitted' = [c \in Clients |-> IF c \in DOMAIN clients' THEN admitted[c] ELSE 0]
    /\ deniedSince' = [c \in Clients |-> c \in DOMAIN clients' /\ deniedSince[c]]

\* one call of is_allowed(c)
IsAllowed(c) ==
    /\ IsAllowedStep(c)
    /\ UNCHANGED <<requests, window>>
    /\ UNCHANGED threadVars
    /\ UNCHANGED mwVars
    /\ UNCHANGED histVars

\* one call of cleanup_expired()
CleanupExpired ==
    /\ CleanupStep
    /\ UNCHANGED <<requests, window, now>>
    /\ UNCHANGED threadVars
    /\ UNCHANGED mwVars
    /\ UNCHANGED histVars

Next ==
    \/ Tick
    \/ \E c \in Callers : IsAllowed(c)
    \/ CleanupExpired

Spec == Init /\ [][Next]_vars


\* ------------------------------------------- sequential calls, over time
\* The calls of Spec, observed with more history: the allowed calls of the
\* last window_seconds ticks, the mapping as it is when no sweep is made, and
\* the clients a sweep removed.

\* a tally of allowed calls by age (0 = this tick), d ticks later
Shift(tally, d) ==
    [a \in DOMAIN tally |-> IF a < d THEN 0 ELSE tally[a - d]]

\* the tally with one more call at this tick
Counted(tally) ==
    [a \in DOMAIN tally |-> IF a = 0 THEN tally[a] + 1 ELSE tally[a]]

H_Tick ==
    /\ now < MaxHistTime
    /\ now' = now + 1
    /\ recent' = [c \in Clients |-> Shift(recent[c], 1)]
    /\ UNCHANGED <<requests, window, clients, last, callNo, deniedSince, admitted, solo>>
    /\ UNCHANGED <<deniedAt, plain, evicted, hlast>>
    /\ UNCHANGED threadVars
    /\ UNCHANGED mwVars

\* one call of is_allowed(c); the same call is made on the mapping that is
\* never swept, where the factory is used only if c never called
H_IsAllowed(c) ==
    /\ IsAllowedStep(c)
    /\ now' <= MaxHistTime
    /\ LET p == is_allowed(plain, c, now, now')
       IN /\ plain' = p.clients
          /\ hlast' = [evicted |-> c \in evicted, allowed |-> p.allowed,
                       remaining |-> p.remaining, deniedAt |-> deniedAt[c]]
    /\ recent' = [x \in Clients |->
                    Shift(IF x = c /\ last'.allowed THEN Counted(recent[x])
                          ELSE recent[x], now' - now)]
    /\ deniedAt' = [deniedAt EXCEPT ![c] = IF last'.allowed THEN -1 ELSE now]
    /\ evicted' = evicted \ {c}
    /\ UNCHANGED <<requests, window>>
    /\ UNCHANGED threadVars
    /\ UNCHANGED mwVars

\* one call of cleanup_expired(); the clients whose window began at least
\* 2 * window ago are the ones it is to remove
H_CleanupExpired ==
    /\ CleanupStep
    /\ evicted' = evicted \cup
                    {k \in DOMAIN clients : now - clients[k].window_start >= 2 * window}
    /\ hlast' = NoHistory
    /\ UNCHANGED <<requests, window, now, recent, deniedAt, plain>>
    /\ UNCHANGED threadVars
    /\ UNCHANGED mwVars

HistNext ==
    \/ H_Tick
    \/ \E c \in Callers : H_IsAllowed(c)
    \/ H_CleanupExpired

HistSpec == Init /\ [][HistNext]_vars


\* ------------------------------------------------------- parallel threads
\* The methods take no lock.  A step is one access of self.clients together
\* with the thread-local computation around it; the clock may tick and other
\* threads may run between any two steps.
seqVars == <<last, callNo, deniedSince, admitted, solo>>
callerVars == <<pc, tclient, tcur, tread, tcalls, tallowed>>
sweeperVars == <<spc, scur, ssize, sseen, sexp>>

TotalCalls == tcalls["A"] + tcalls["B"]
InFlight == Cardinality({t \in Threads : pc[t] # "idle"})

\* line 55: current_time = time.time()
T_Time(t, c) ==
    /\ pc[t] = "idle"
    /\ c \in Callers
    /\ TotalCalls + InFlight < MaxThreadCalls
    /\ pc' = [pc EXCEPT ![t] = "lookup"]
    /\ tclient' = [tclient EXCEPT ![t] = c]
    /\ tcur' = [tcur EXCEPT ![t] = now]
    /\ UNCHANGED <<limiterVars, seqVars, tread, tcalls, tallowed, sweeperVars, slost>>
    /\ UNCHANGED mwVars
    /\ UNCHANGED histVars

\* line 56, key present: count, window_start = self.clients[client_id]
T_LookupHit(t) ==
    /\ pc[t] = "lookup"
    /\ tclient[t] \in DOMAIN clients
    /\ tread' = [tread EXCEPT ![t] = clients[tclient[t]]]
    /\ pc' = [pc EXCEPT ![t] = "decide"]
    /\ UNCHANGED <<limiterVars, seqVars, tclient, tcur, tcalls, tallowed, sweeperVars, slost>>
    /\ UNCHANGED mwVars
    /\ UNCHANGED histVars

\* line 56, key missing: defaultdict.__missing__ calls the factory (line 43),
\* Python code during which other threads may run
T_LookupMiss(t) ==
    /\ pc[t] = "lookup"
    /\ tclient[t] \notin DOMAIN clients
    /\ pc' = [pc EXCEPT ![t] = "factory"]
    /\ UNCHANGED <<limiterVars, seqVars, tclient, tcur, tread, tcalls, tallowed,
                   sweeperVars, slost>>
    /\ UNCHANGED mwVars
    /\ UNCHANGED histVars

\* line 43: the factory's (0, time.time()) is stored under the key, over
\* whatever is there by now, and returned to line 56
T_Factory(t) ==
    /\ pc[t] = "factory"
    /\ clients' = (tclient[t] :> Entry(0, now)) @@ clients
    /\ tread' = [tread EXCEPT ![t] = Entry(0, now)]
    /\ pc' = [pc EXCEPT ![t] = "decide"]
    /\ UNCHANGED <<requests, window, now, seqVars, tclient, tcur, tcalls, tallowed,
                   sweeperVars, slost>>
    /\ UNCHANGED mwVars
    /\ UNCHANGED histVars

\* lines 58-71 on the values read at line 56: the write, if any, and return
T_Decide(t) ==
    /\ pc[t] = "decide"
    /\ LET c == tclient[t]
           r == Decide(clients, c, tread[t].count, tread[t].window_start, tcur[t])
       IN /\ clients' = r.clients
          /\ tcalls' = [tcalls EXCEPT ![c] = @ + 1]
          /\ tallowed' = [tallowed EXCEPT ![c] = @ + (IF r.allowed THEN 1 ELSE 0)]
    /\ pc' = [pc EXCEPT ![t] = "idle"]
    /\ tclient' = [tclient EXCEPT ![t] = NoClient]
    /\ tcur' = [tcur EXCEPT ![t] = 0]
    /\ tread' = [tread EXCEPT ![t] = NoEntry]
    /\ UNCHANGED <<requests, window, now, seqVars, sweeperVars, slost>>
    /\ UNCHANGED mwVars
    /\ UNCHANGED histVars

\* line 75: current_time = time.time()
S_Time ==
    /\ spc \in {"idle", "failed"}
    /\ spc' = "open"
    /\ scur' = now
    /\ UNCHANGED <<limiterVars, seqVars, callerVars, ssize, sseen, sexp, slost>>
    /\ UNCHANGED mwVars
    /\ UNCHANGED histVars

\* line 77: the iterator of self.clients.items() is created
S_Open ==
    /\ spc = "open"
    /\ spc' = "iter"
    /\ ssize' = Cardinality(DOMAIN clients)
    /\ sseen' = <<>>
    /\ sexp' = {}
    /\ UNCHANGED <<limiterVars, seqVars, callerVars, scur, slost>>
    /\ UNCHANGED mwVars
    /\ UNCHANGED histVars

\* lines 77-78: the iterator yields the next item and the test is made on it
S_Item(k) ==
    /\ spc = "iter"
    /\ Cardinality(DOMAIN clients) = ssize
    /\ k \in DOMAIN clients \ DOMAIN sseen
    /\ sseen' = (k :> clients[k]) @@ sseen
    /\ sexp' = IF SweepExpired(scur, clients[k].window_start)
               THEN sexp \cup {k} ELSE sexp
    /\ UNCHANGED <<limiterVars, seqVars, callerVars, spc, scur, ssize, slost>>
    /\ UNCHANGED mwVars
    /\ UNCHANGED histVars

\* line 77: the dict's size differs from the one the iterator started with:
\* RuntimeError("dictionary changed size during iteration") ends the sweep
S_ChangedSize ==
    /\ spc = "iter"
    /\ Cardinality(DOMAIN clients) # ssize
    /\ spc' = "failed"
    /\ sseen' = <<>>
    /\ sexp' = {}
    /\ scur' = 0
    /\ ssize' = 0
    /\ UNCHANGED <<limiterVars, seqVars, callerVars, slost>>
    /\ UNCHANGED mwVars
    /\ UNCHANGED histVars

\* line 77: the iterator is exhausted
S_Exhausted ==
    /\ spc = "iter"
    /\ Cardinality(DOMAIN clients) = ssize
    /\ DOMAIN clients \subseteq DOMAIN sseen
    /\ spc' = "delete"
    /\ UNCHANGED <<limiterVars, seqVars, callerVars, scur, ssize, sseen, sexp, slost>>
    /\ UNCHANGED mwVars
    /\ UNCHANGED histVars

\* lines 81-82: del self.clients[client_id] (KeyError on a missing key)
S_Delete(k) ==
    /\ spc = "delete"
    /\ k \in sexp
    /\ IF k \in DOMAIN clients
       THEN /\ clients' = Without(clients, {k})
            /\ slost' = (slost \/ clients[k] # sseen[k])
            /\ sexp' = sexp \ {k}
            /\ UNCHANGED <<spc, sseen>>
       ELSE /\ spc' = "failed"
            /\ sexp' = {}
            /\ sseen' = <<>>
            /\ UNCHANGED <<clients, slost>>
    /\ UNCHANGED <<requests, window, now, seqVars, callerVars, scur, ssize>>
    /\ UNCHANGED mwVars
    /\ UNCHANGED histVars

\* line 82: the loop ends and cleanup_expired returns
S_Return ==
    /\ spc = "delete"
    /\ sexp = {}
    /\ spc' = "idle"
    /\ sseen' = <<>>
    /\ scur' = 0
    /\ ssize' = 0
    /\ UNCHANGED <<limiterVars, seqVars, callerVars, sexp, slost>>
    /\ UNCHANGED mwVars
    /\ UNCHANGED histVars

ThreadTick ==
    /\ now < MaxThreadTime
    /\ now' = now + 1
    /\ UNCHANGED <<requests, window, clients, seqVars, threadVars>>
    /\ UNCHANGED mwVars
    /\ UNCHANGED histVars

ThreadNext ==
    \/ ThreadTick
    \/ \E t \in Threads, c \in Callers : T_Time(t, c)
    \/ \E t \in Threads : T_LookupHit(t)
    \/ \E t \in Threads : T_LookupMiss(t)
    \/ \E t \in Threads : T_Factory(t)
    \/ \E t \in Threads : T_Decide(t)
    \/ S_Time
    \/ S_Open
    \/ \E k \in Clients : S_Item(k)
    \/ S_ChangedSize
    \/ S_Exhausted
    \/ \E k \in Clients : S_Delete(k)
    \/ S_Return

\* the threads are observed under the configurations with a positive window
ThreadInit == Init /\ window >= 1

ThreadSpec == ThreadInit /\ [][ThreadNext]_vars

\* ------------------------------------------------ middleware, cooperative
\* dispatch is a coroutine: between two awaits it runs without interruption,
\* and other tasks run only while it waits in "await call_next(request)".
ExemptPaths == {"/docs", "/redoc", "/openapi.json"}
Paths == ExemptPaths \cup {"/items"}
Hosts == {"A", NoHost}

\* faulty variant: a request without an address is counted as client "A"
ClientIp_asA(host) == IF host = NoHost THEN "A" ELSE host


\* line 131: request.client.host if request.client else "unknown"
ClientIp(host) == IF host = NoHost THEN "unknown" ELSE host

\* faulty variant: only the enabled flag is looked at, the exempt paths are
\* rate limited like any other
Bypassed_flagOnly(path) == ~enabled

\* lines 123-128: the request goes downstream without a rate-limit check
Bypassed(path) == ~enabled \/ path \in ExemptPaths

\* faulty variant: retry_after carries the request limit
TooManyRequests_retryLimit ==
    [status_code |-> 429,
     detail |-> [message |-> "Rate limit exceeded", limit |-> requests,
                 window |-> <<window, "s">>, retry_after |-> requests]]

\* lines 147-155: the HTTPException raised, with its status_code and detail;
\* f"{self.window_seconds}s" is the number followed by the letter s
TooManyRequests ==
    [status_code |-> 429,
     detail |-> [message |-> "Rate limit exceeded", limit |-> requests,
                 window |-> <<window, "s">>, retry_after |-> window]]

\* the exception handlers of the application (atams.exceptions.handlers) turn
\* an HTTPException into a response with its status code and its detail as
\* the body
Surfaced(exc) == [status |-> exc.status_code, body |-> exc.detail]

\* what the client gets when dispatch raised at line 147: call_next was not
\* called, no header was set
Rejection(k, request) ==
    LET response == Surfaced(TooManyRequests)
    IN [task |-> k, request |-> request, status |-> response.status,
        forwarded |-> FALSE, headers |-> <<>>, detail |-> response.body]

\* faulty variant: the remaining header carries the limit
RateLimitHeaders_full(remaining) ==
    [limit |-> requests, remaining |-> requests, window |-> <<window, "s">>]


\* lines 160-163: the three headers set on the downstream response
RateLimitHeaders(remaining) ==
    [limit |-> requests, remaining |-> remaining, window |-> <<window, "s">>]

\* lines 121-128: a request that is not rate limited starts waiting for
\* call_next
D_Bypass(k, path, host) ==
    /\ kpc[k] = "idle"
    /\ dispatched < MaxDispatches
    /\ Bypassed(path)
    /\ kpc' = [kpc EXCEPT ![k] = "bypass"]
    /\ kreq' = [kreq EXCEPT ![k] = [path |-> path, host |-> host]]
    /\ dispatched' = dispatched + 1
    /\ UNCHANGED <<limiterVars, seqVars, threadVars, histVars>>
    /\ UNCHANGED <<enabled, cleanup_counter, kremaining, kout, checked, sweeps, stopped>>
    /\ UNCHANGED beat

\* lines 124 and 128: call_next returned; its response is returned as it is
D_BypassReturn(k) ==
    /\ kpc[k] = "bypass"
    /\ kpc' = [kpc EXCEPT ![k] = "idle"]
    /\ kreq' = [kreq EXCEPT ![k] = NoRequest]
    /\ kout' = [NoOutcome EXCEPT !.task = k, !.request = kreq[k],
                                 !.status = 200, !.forwarded = TRUE]
    /\ UNCHANGED <<limiterVars, seqVars, threadVars, histVars>>
    /\ UNCHANGED <<enabled, cleanup_counter, kremaining, dispatched, checked, sweeps>>
    /\ UNCHANGED <<stopped, beat>>

\* lines 121-158 for a rate-limited request: the check of line 134, then
\* either the HTTPException of line 147 or the wait for call_next (line 158)
D_Check(k, path, host) ==
    /\ kpc[k] = "idle"
    /\ dispatched < MaxDispatches
    /\ ~Bypassed(path)
    /\ IsAllowedStep(ClientIp(host))
    /\ dispatched' = dispatched + 1
    /\ checked' = checked + 1
    /\ IF last'.allowed
       THEN /\ kpc' = [kpc EXCEPT ![k] = "downstream"]
            /\ kreq' = [kreq EXCEPT ![k] = [path |-> path, host |-> host]]
            /\ kremaining' = [kremaining EXCEPT ![k] = last'.remaining]
            /\ UNCHANGED kout
       ELSE /\ kout' = Rejection(k, [path |-> path, host |-> host])
            /\ UNCHANGED <<kpc, kreq, kremaining>>
    /\ UNCHANGED <<requests, window, threadVars, histVars>>
    /\ UNCHANGED <<enabled, cleanup_counter, sweeps, stopped, beat>>

\* lines 158-171: call_next returned; headers, cleanup counter, sweep, return
D_Resume(k) ==
    /\ kpc[k] = "downstream"
    /\ kout' = [task |-> k, request |-> kreq[k], status |-> 200, forwarded |-> TRUE,
                headers |-> RateLimitHeaders(kremaining[k]), detail |-> <<>>]
    /\ IF cleanup_counter + 1 >= CLEANUP_INTERVAL
       THEN /\ CleanupStep
            /\ cleanup_counter' = 0
            /\ sweeps' = sweeps + 1
       ELSE /\ cleanup_counter' = cleanup_counter + 1
            /\ UNCHANGED <<clients, seqVars, sweeps>>
    /\ kpc' = [kpc EXCEPT ![k] = "idle"]
    /\ kreq' = [kreq EXCEPT ![k] = NoRequest]
    /\ kremaining' = [kremaining EXCEPT ![k] = 0]
    /\ UNCHANGED <<requests, window, now, threadVars, histVars>>
    /\ UNCHANGED <<enabled, dispatched, checked, stopped, beat>>

TaskTick ==
    /\ now < MaxTaskTime
    /\ now' = now + 1
    /\ UNCHANGED <<requests, window, clients, seqVars, threadVars, mwVars, histVars>>

TaskNext ==
    \/ TaskTick
    \/ \E k \in Tasks, path \in Paths, host \in Hosts : D_Bypass(k, path, host)
    \/ \E k \in Tasks : D_BypassReturn(k)
    \/ \E k \in Tasks, path \in Paths, host \in Hosts : D_Check(k, path, host)
    \/ \E k \in Tasks : D_Resume(k)

\* the counter's value when the observed run begins: 0 after construction, or
\* what earlier admitted requests of clients outside Clients left in it
\* (their entries are not among the ones observed)
PriorAdmitted == {0, CLEANUP_INTERVAL - 2}

TaskInit ==
    /\ InitLimiter
    /\ InitThreads
    /\ enabled \in BOOLEAN
    /\ cleanup_counter \in PriorAdmitted
    /\ kpc = [k \in Tasks |-> "idle"]
    /\ kreq = [k \in Tasks |-> NoRequest]
    /\ kremaining = [k \in Tasks |-> 0]
    /\ kout = NoOutcome
    /\ dispatched = 0
    /\ checked = cleanup_counter
    /\ sweeps = 0
    /\ stopped = FALSE
    /\ beat = FALSE
    /\ InitHistory

TaskSpec == TaskInit /\ [][TaskNext]_vars

\* ------------------------------------------------- middleware, endless runs
\* Runs in which the clock never stops.  The code uses a time only in
\* current_time - window_start (lines 59 and 78), so the clock is kept at 0
\* and the passing of d ticks lowers every stored window_start by d; an age
\* of 2 * window or more is kept as 2 * window (every test of the code gives
\* the same answer for all of them).
OtherHost == "other"

Max(a, b) == IF a > b THEN a ELSE b

Rebased(cl, d) ==
    [k \in DOMAIN cl |->
        Entry(cl[k].count, Max(cl[k].window_start - d, 0 - 2 * window))]

\* the entries of the observed clients
Observed(cl) == [k \in DOMAIN cl \cap Clients |-> cl[k]]

L_Tick ==
    /\ clients' = Rebased(clients, 1)
    /\ UNCHANGED <<requests, window, now, seqVars, threadVars, mwVars, histVars>>

\* client A sends no request from now on
L_Stop ==
    /\ ~stopped
    /\ stopped' = TRUE
    /\ UNCHANGED <<limiterVars, seqVars, threadVars, histVars>>
    /\ UNCHANGED <<enabled, cleanup_counter, kpc, kreq, kremaining, kout>>
    /\ UNCHANGED <<dispatched, checked, sweeps, beat>>

\* lines 121-158 for a request to /items of the client at `host`: an observed
\* client, or an address never seen before, whose entry is not observed
L_Check(k, host) ==
    /\ kpc[k] = "idle"
    /\ host = "A" => ~stopped
    /\ \E d \in 0..MaxSkew :
          LET c == ClientIp(host)
              r == is_allowed(clients, c, now, now + d)
          IN /\ c \in DOMAIN clients => d = 0
             /\ clients' = Rebased(Observed(r.clients), d)
             /\ IF r.allowed
                THEN /\ kpc' = [kpc EXCEPT ![k] = "downstream"]
                     /\ kreq' = [kreq EXCEPT ![k] = [path |-> "/items", host |-> host]]
                     /\ kremaining' = [kremaining EXCEPT ![k] = r.remaining]
                ELSE UNCHANGED <<kpc, kreq, kremaining>>
    /\ beat' = ~beat
    /\ UNCHANGED <<requests, window, now, seqVars, threadVars, histVars>>
    /\ UNCHANGED <<enabled, cleanup_counter, kout, dispatched, checked, sweeps, stopped>>

\* lines 158-171: call_next returned; cleanup counter, sweep, return
L_Resume(k) ==
    /\ kpc[k] = "downstream"
    /\ IF cleanup_counter + 1 >= CLEANUP_INTERVAL
       THEN /\ clients' = cleanup_expired(clients, now)
            /\ cleanup_counter' = 0
       ELSE /\ cleanup_counter' = cleanup_counter + 1
            /\ UNCHANGED clients
    /\ kpc' = [kpc EXCEPT ![k] = "idle"]
    /\ kreq' = [kreq EXCEPT ![k] = NoRequest]
    /\ kremaining' = [kremaining EXCEPT ![k] = 0]
    /\ UNCHANGED <<requests, window, now, seqVars, threadVars, histVars>>
    /\ UNCHANGED <<enabled, kout, dispatched, checked, sweeps, stopped, beat>>

Arrival == \E k \in Tasks, host \in Hosts \cup {OtherHost} : L_Check(k, host)
Return == \E k \in Tasks : L_Resume(k)

LiveNext ==
    \/ L_Tick
    \/ L_Stop
    \/ Arrival
    \/ Return

\* the endless runs are observed under the configurations with a positive
\* window
LiveInit ==
    /\ Init
    /\ requests <= MaxLiveRequests
    /\ window >= 1
    /\ window <= MaxLiveWindow

\* time keeps advancing, requests keep arriving, and the downstream handler
\* answers every request it was given
LiveSpec ==
    /\ LiveInit
    /\ [][LiveNext]_vars
    /\ WF_vars(L_Tick)
    /\ WF_vars(Arrival)
    /\ WF_vars(Return)


\* ------------------------------------------------ claims, sequential calls
InWindow(c) ==
    /\ c \in DOMAIN last.pre
    /\ last.time - last.pre[c].window_start < window

\* C1: with max_requests = N >= 1 and window_seconds >= 1, call number k of a
\* client that had no entry, made before its window elapsed, returns
\* (true, N - k) for k <= N and (false, 0) for k = N + 1 (and every later k).
C1_FirstNCalls ==
    (/\ requests >= 1
     /\ window >= 1
     /\ last.op = "is_allowed"
     /\ callNo[last.client] > 0)
    => LET k == callNo[last.client]
       IN IF k <= requests
          THEN last.allowed /\ last.remaining = requests - k
          ELSE ~last.allowed /\ last.remaining = 0

\* the instance N = 3: the fourth call in the window is the first one denied
C1_Witness ==
    /\ requests = 3
    /\ window = 2
    /\ last.op = "is_allowed"
    /\ callNo[last.client] = 4
    /\ ~last.allowed
    /\ clients[last.client].count = 3

\* C3: with max_requests = 0 and window_seconds >= 1 every call of is_allowed
\* returns (false, 0), whatever happened before.
C3_PermanentDenial ==
    (requests = 0 /\ window >= 1 /\ last.op = "is_allowed")
    => (~last.allowed /\ last.remaining = 0)

\* C4: a call for a client with an entry, made when at least window_seconds
\* have elapsed since its window_start, returns (true, max_requests - 1),
\* whatever the stored count and whether or not the client had been denied.
C4_WindowReset ==
    (/\ last.op = "is_allowed"
     /\ last.client \in DOMAIN last.pre
     /\ last.time - last.pre[last.client].window_start >= window)
    => (last.allowed /\ last.remaining = requests - 1)

\* a client denied in its old window is allowed again exactly at the boundary
C4_Witness ==
    /\ requests = 3
    /\ window = 2
    /\ last.op = "is_allowed"
    /\ last.client \in DOMAIN last.pre
    /\ last.time - last.pre[last.client].window_start = window
    /\ last.pre[last.client].count = 3
    /\ last.deniedBefore
    /\ last.allowed
    /\ last.remaining = 2

\* C5: once a client has been denied in the window of its entry, every
\* further call made before that window elapses returns (false, 0) and
\* leaves the entry's count and window_start as they were.
C5_IdempotentRejection ==
    (/\ last.op = "is_allowed"
     /\ last.deniedBefore
     /\ InWindow(last.client))
    => (/\ ~last.allowed
        /\ last.remaining = 0
        /\ last.client \in DOMAIN clients
        /\ clients[last.client] = last.pre[last.client])

\* a repeated denial, one tick after the window began
C5_Witness ==
    /\ requests >= 1
    /\ last.op = "is_allowed"
    /\ last.deniedBefore
    /\ InWindow(last.client)
    /\ last.time > last.pre[last.client].window_start
    /\ ~last.allowed

\* C6: cleanup_expired run at time t removes exactly the entries with
\* t - window_start >= 2 * window_seconds; the others stay, unchanged, and
\* no entry is added.
C6_SweepExact ==
    (last.op = "cleanup_expired")
    => (/\ DOMAIN clients =
             {k \in DOMAIN last.pre :
                 last.time - last.pre[k].window_start < 2 * window}
        /\ \A k \in DOMAIN clients : clients[k] = last.pre[k])

\* a sweep that removed one entry and kept the other
C6_Witness ==
    /\ window >= 1
    /\ last.op = "cleanup_expired"
    /\ \E a, b \in DOMAIN last.pre :
          /\ a \notin DOMAIN clients
          /\ b \in DOMAIN clients
          /\ last.time - last.pre[a].window_start = 2 * window
          /\ last.time - last.pre[b].window_start = 2 * window - 1

\* C9: a call of is_allowed for one client leaves every other client's entry
\* (presence, count, window_start) unchanged, and returns what it returns in
\* the run where the other clients make no call at all.
C9_Independence ==
    (last.op = "is_allowed")
    => (/\ \A b \in Clients \ {last.client} :
              /\ b \in DOMAIN clients <=> b \in DOMAIN last.pre
              /\ b \in DOMAIN last.pre => clients[b] = last.pre[b]
        /\ last.allowed = last.soloAllowed
        /\ last.remaining = last.soloRemaining
        /\ solo[last.client] = clients[last.client])

\* a call of A, reset at its window boundary, after B started a window in
\* between A's calls
C9_Witness ==
    /\ last.op = "is_allowed"
    /\ last.client = "A"
    /\ last.branch = "reset"
    /\ "A" \in DOMAIN last.pre
    /\ "B" \in DOMAIN last.pre
    /\ last.pre["B"].window_start > last.pre["A"].window_start
    /\ last.pre["B"].count >= 1

\* C10: the remaining value of every allowed call is >= 0 and equals
\* max_requests minus the client's count after the call (stated here for
\* the configurations with window_seconds >= 1).
C10_RemainingNonNegative ==
    (window >= 1 /\ last.op = "is_allowed" /\ last.allowed)
    => (/\ last.remaining >= 0
        /\ last.remaining = requests - clients[last.client].count)

\* -------------------------------------------------- claims, parallel threads
\* C2: K calls of is_allowed for one client that had no entry, issued from
\* parallel threads within one window: once all have returned, exactly
\* min(K, max_requests) of them were allowed and the stored count is the
\* number of allowed calls.  (Before time reaches window_seconds every call
\* falls into the first window, and no sweep can remove an entry.)
C2_ConcurrentCalls ==
    (/\ now < window
     /\ \A t \in Threads : pc[t] = "idle")
    => \A c \in Clients :
          /\ tallowed[c] = Min(tcalls[c], requests)
          /\ c \in DOMAIN clients => clients[c].count = tallowed[c]

\* C7: a sweep running in parallel with is_allowed calls never deletes an
\* entry that was written after the sweep read it, and never fails (stated
\* here for the configurations with max_requests >= 1).
C7_SweepSafe ==
    requests >= 1 => (spc # "failed" /\ ~slost)

\* the part of C7 about lost updates alone
C7_NoLostUpdate == requests >= 1 => ~slost

\* ------------------------------------------------ claims, cooperative tasks
CountMatchesAdmissions ==
    \A c \in DOMAIN clients :
        /\ admitted[c] <= requests
        /\ clients[c].count = admitted[c]

\* C8: with dispatch run by cooperatively scheduled tasks, for every client
\* the number of requests admitted within one window never exceeds
\* max_requests, and the stored count is the number of requests admitted in
\* that window (stated here for the configurations with window_seconds >= 1).
C8_TaskAdmission == window >= 1 => CountMatchesAdmissions

\* the same for the configurations with max_requests >= 1 only
C8_PositiveLimit == (window >= 1 /\ requests >= 1) => CountMatchesAdmissions

\* ------------------------------------------------------ claims, middleware
NoTaskInFlight == \A k \in Tasks : kpc[k] = "idle"

\* C11: the cleanup counter is incremented on every enabled, non-exempt
\* request that reaches the admission check, allowed or denied: once P such
\* requests have been handled, the sweep has been invoked floor(P / 100)
\* times and the counter equals P mod 100 (stated here for the configurations
\* with max_requests >= 1 and window_seconds >= 1).
C11_CleanupTrigger ==
    (requests >= 1 /\ window >= 1 /\ NoTaskInFlight)
    => (/\ cleanup_counter = checked % CLEANUP_INTERVAL
        /\ sweeps = checked \div CLEANUP_INTERVAL)

\* the request a dispatch step took from the server, if it took one: it is
\* held by the task that left "idle", or, when it was rejected within the
\* step, named by the outcome
Taken == dispatched' = dispatched + 1
TakenRequest ==
    IF \E k \in Tasks : kpc[k] = "idle" /\ kpc'[k] # "idle"
    THEN kreq'[CHOOSE k \in Tasks : kpc[k] = "idle" /\ kpc'[k] # "idle"]
    ELSE kout'.request
RejectedInStep == Taken /\ kpc' = kpc

NotLimited(path) == ~enabled \/ path \in {"/docs", "/redoc", "/openapi.json"}

\* C12: a request handled while enabled is false, or whose path is /docs,
\* /redoc or /openapi.json, is forwarded downstream and its response returned
\* without rate-limit headers; the limiter's mapping and the cleanup counter
\* stay as they were, and the request is never denied.
C12_BypassStep ==
    /\ (Taken /\ NotLimited(TakenRequest.path))
       => /\ ~RejectedInStep
          /\ \A k \in Tasks : kpc'[k] # kpc[k] => kpc'[k] = "bypass"
          /\ UNCHANGED <<clients, cleanup_counter, kout>>
    /\ \A k \in Tasks :
          (kpc[k] # "idle" /\ kpc'[k] = "idle" /\ NotLimited(kreq[k].path))
          => /\ kout' = [task |-> k, request |-> kreq[k], status |-> 200,
                         forwarded |-> TRUE, headers |-> <<>>, detail |-> <<>>]
             /\ UNCHANGED <<clients, cleanup_counter>>
C12_Bypass == [][C12_BypassStep]_vars

\* an exempt path answered for a client whose quota is exhausted, the limiter
\* being enabled
C12_Witness ==
    /\ enabled
    /\ requests >= 1
    /\ kout.status = 200
    /\ kout.forwarded
    /\ kout.headers = <<>>
    /\ kout.request = [path |-> "/docs", host |-> "A"]
    /\ "A" \in DOMAIN clients
    /\ clients["A"].count >= requests
    /\ now - clients["A"].window_start < window
    /\ deniedSince["A"]

\* C13: when is_allowed returns allowed = false for an enabled, non-exempt
\* request, the downstream handler is not invoked and the outcome is a
\* rejection with status 429 whose body carries message, limit =
\* max_requests, window = "{window_seconds}s" and retry_after =
\* window_seconds.
C13_RejectionStep ==
    (/\ Taken
     /\ ~NotLimited(TakenRequest.path)
     /\ last'.op = "is_allowed"
     /\ ~last'.allowed)
    => /\ RejectedInStep
       /\ kout'.request = TakenRequest
       /\ kout'.status = 429
       /\ ~kout'.forwarded
       /\ kout'.headers = <<>>
       /\ kout'.detail = [message |-> "Rate limit exceeded", limit |-> requests,
                          window |-> <<window, "s">>, retry_after |-> window]
C13_Rejection == [][C13_RejectionStep]_vars

\* the request of a client that used up max_requests = 2 in a window of 2
C13_Witness ==
    /\ requests = 2
    /\ window = 2
    /\ last.op = "is_allowed"
    /\ ~last.allowed
    /\ last.client = "A"
    /\ kout.status = 429
    /\ kout.request = [path |-> "/items", host |-> "A"]
    /\ kout.detail.retry_after = 2
    /\ kout.detail.limit = 2
    /\ clients["A"].count = 2

\* C14: every admitted request is forwarded downstream exactly once, after
\* the admission check, and its response carries limit = max_requests,
\* remaining = the value returned by that request's own is_allowed call and
\* window = "{window_seconds}s", also when other requests of the same client
\* are admitted while it waits for the downstream handler.
C14_AdmittedStep ==
    /\ (/\ Taken
        /\ ~NotLimited(TakenRequest.path)
        /\ last'.op = "is_allowed"
        /\ last'.allowed)
       => /\ \E k \in Tasks :
                /\ kpc[k] = "idle"
                /\ kpc'[k] = "downstream"
                /\ kreq'[k] = TakenRequest
                /\ kremaining'[k] = last'.remaining
          /\ kout' = kout
    /\ \A k \in Tasks :
          (kpc[k] = "downstream" /\ kpc'[k] = "downstream")
          => (kremaining'[k] = kremaining[k] /\ kreq'[k] = kreq[k])
    /\ \A k \in Tasks :
          (kpc[k] = "downstream" /\ kpc'[k] # "downstream")
          => /\ kpc'[k] = "idle"
             /\ kout' = [task |-> k, request |-> kreq[k], status |-> 200,
                         forwarded |-> TRUE,
                         headers |-> [limit |-> requests,
                                      remaining |-> kremaining[k],
                                      window |-> <<window, "s">>],
                         detail |-> <<>>]
C14_AdmittedResponse == [][C14_AdmittedStep]_vars

\* the first of three admitted requests of client A answered last: its header
\* says remaining = 2 although the client's count has reached 3 meanwhile
C14_Witness ==
    /\ enabled
    /\ requests = 3
    /\ kout.status = 200
    /\ kout.request = [path |-> "/items", host |-> "A"]
    /\ kout.forwarded
    /\ kout.headers = [limit |-> 3, remaining |-> 2, window |-> <<window, "s">>]
    /\ "A" \in DOMAIN clients
    /\ clients["A"].count = 3

\* ------------------------------------- claims, sequential calls (continued)
\* C15: with window_seconds = 0 (any max_requests, the clock not running
\* backwards) every call of is_allowed, for a new client or a known one,
\* returns allowed = true; no call is ever denied.
C15_ZeroWindow ==
    (window = 0 /\ last.op = "is_allowed") => last.allowed

\* the same for max_requests >= 1
C15_ZeroWindowPositiveLimit ==
    (window = 0 /\ requests >= 1 /\ last.op = "is_allowed") => last.allowed

\* C20: a denied call of is_allowed leaves the whole client mapping as it was,
\* also for a client id never seen before: a denied call creates no entry
\* (stated here for the configurations with window_seconds >= 1).
C20_DeniedCreatesNothing ==
    (window >= 1 /\ last.op = "is_allowed" /\ ~last.allowed) => clients = last.pre

\* the same for the clients that have an entry already
C20_DeniedKnownClient ==
    (/\ window >= 1
     /\ last.op = "is_allowed"
     /\ ~last.allowed
     /\ last.client \in DOMAIN last.pre)
    => clients = last.pre

\* ---------------------------------------- claims, sequential calls over time
RECURSIVE AllowedWithin(_, _)
\* the allowed calls among the ticks of age < n
AllowedWithin(tally, n) ==
    IF n = 0 THEN 0 ELSE tally[n - 1] + AllowedWithin(tally, n - 1)

\* C16: sliding window: for every client, every time interval of length
\* window_seconds, also one that spans a reset, holds at most max_requests
\* calls that returned allowed = true (stated here for max_requests >= 1).
C16_SlidingWindow ==
    requests >= 1
    => \A c \in Clients : AllowedWithin(recent[c], window) <= requests

\* what the code bounds instead: twice max_requests
C16_TwiceLimit ==
    requests >= 1
    => \A c \in Clients : AllowedWithin(recent[c], window) <= 2 * requests

\* C19: for max_requests >= 1 and window_seconds >= 1 the calls of
\* cleanup_expired change no result: every call of is_allowed returns what it
\* returns in the run with the same calls at the same times and no sweep.
C19_SweepTransparent ==
    (requests >= 1 /\ window >= 1 /\ last.op = "is_allowed")
    => (last.allowed = hlast.allowed /\ last.remaining = hlast.remaining)

\* what the first call of a client without an entry gives: for max_requests
\* >= 1 it is allowed with remaining = max_requests - 1 and leaves the entry
\* (1, time of the call); for max_requests = 0 it is denied and leaves count 0,
\* unless window_seconds = 0 lets the reset branch take it
FirstCallOutcome ==
    LET e == clients[last.client]
    IN /\ e.window_start \in last.time..now
       /\ IF requests >= 1 \/ (window = 0 /\ e.window_start = last.time)
          THEN last.allowed /\ last.remaining = requests - 1 /\ e.count = 1
          ELSE ~last.allowed /\ last.remaining = 0 /\ e.count = 0

\* C17: after a sweep removed a client's entry, the client's next call of
\* is_allowed finds no entry, and returns the result and leaves the entry of
\* the first call of a client never seen: nothing of the client's earlier
\* calls is left to influence it.
C17_EvictionAmnesty ==
    (last.op = "is_allowed")
    => /\ hlast.evicted => last.client \notin DOMAIN last.pre
       /\ last.client \notin DOMAIN last.pre => FirstCallOutcome

\* a client swept and back: in the run without the sweep its call is a reset
\* of the old entry
C17_Witness ==
    /\ requests = 2
    /\ window = 1
    /\ last.op = "is_allowed"
    /\ hlast.evicted
    /\ last.allowed
    /\ last.remaining = 1
    /\ clients[last.client] = Entry(1, last.time)
    /\ plain[last.client] = Entry(1, last.time)

\* ------------------------------------------ claims, middleware (continued)
\* C18: every rate-limited request without an originating address is
\* accounted under the client id "unknown": these requests share one counter,
\* so once max_requests of them were admitted in a window every further one
\* in that window is rejected, while the entries and the results of the
\* requests with an address are unaffected by them.
C18_UnknownStep ==
    (Taken /\ ~NotLimited(TakenRequest.path))
    => LET c == IF TakenRequest.host = NoHost THEN "unknown" ELSE TakenRequest.host
       IN /\ last'.op = "is_allowed"
          /\ last'.client = c
          /\ \A b \in Clients \ {c} :
                /\ b \in DOMAIN clients' <=> b \in DOMAIN clients
                /\ b \in DOMAIN clients => clients'[b] = clients[b]
          /\ (/\ c \in DOMAIN clients
              /\ now - clients[c].window_start < window
              /\ admitted[c] >= requests)
             => (RejectedInStep /\ kout'.status = 429)
          /\ last'.allowed = last'.soloAllowed
          /\ last'.remaining = last'.soloRemaining
C18_UnknownBucket == [][C18_UnknownStep]_vars

\* a request without an address rejected after one such request was admitted
\* (max_requests = 1), client A having been admitted in between
C18_Witness ==
    /\ requests = 1
    /\ window >= 1
    /\ kout.status = 429
    /\ kout.request = [path |-> "/items", host |-> NoHost]
    /\ last.op = "is_allowed"
    /\ last.client = "unknown"
    /\ ~last.allowed
    /\ admitted["unknown"] = 1
    /\ "A" \in DOMAIN clients
    /\ admitted["A"] = 1
    /\ clients["A"].window_start >= clients["unknown"].window_start

\* ------------------------------------ claims, sequential calls (degenerate)
\* C21: with max_requests = 0 and window_seconds >= 1 the first call of
\* is_allowed for a client id without an entry returns (false, 0).
C21_NoFreeRequest ==
    (/\ requests = 0
     /\ window >= 1
     /\ last.op = "is_allowed"
     /\ last.client \notin DOMAIN last.pre)
    => (~last.allowed /\ last.remaining = 0)

\* a client's first call, made when the clock has passed one window length
C21_Witness ==
    /\ requests = 0
    /\ window >= 1
    /\ last.op = "is_allowed"
    /\ last.client \notin DOMAIN last.pre
    /\ last.time >= window
    /\ ~last.allowed
    /\ last.remaining = 0

\* C22: window_start of an entry changes only in the reset step of
\* is_allowed, taken exactly when elapsed >= window_seconds, which sets the
\* entry to (1, time of the call); an increment, a denial, a call of another
\* client and a sweep leave the window_start of every entry they keep as it
\* was.
C22_FixedWindow ==
    /\ \A k \in DOMAIN last.pre \cap DOMAIN clients :
          (last.op # "is_allowed" \/ k # last.client)
          => clients[k].window_start = last.pre[k].window_start
    /\ (last.op = "is_allowed" /\ last.client \in DOMAIN last.pre)
       => LET c == last.client
              elapsed == last.time - last.pre[c].window_start
          IN IF elapsed >= window
             THEN clients[c] = Entry(1, last.time)
             ELSE clients[c].window_start = last.pre[c].window_start

\* an allowed call one tick before the window's end: the window's start stays
C22_Witness ==
    /\ window = 2
    /\ last.op = "is_allowed"
    /\ last.client \in DOMAIN last.pre
    /\ last.time - last.pre[last.client].window_start = window - 1
    /\ last.allowed
    /\ clients[last.client].count = last.pre[last.client].count + 1
    /\ clients[last.client].window_start = last.pre[last.client].window_start

\* C23: for max_requests = N >= 1, in every state reached by calls of
\* is_allowed and cleanup_expired, every stored entry has 1 <= count <= N.
C23_CountInvariant ==
    requests >= 1
    => \A k \in DOMAIN clients :
          (1 <= clients[k].count /\ clients[k].count <= requests)

\* client A blocked at count = N = 2 and denied since, client B at count 1
C23_Witness ==
    /\ requests = 2
    /\ window >= 1
    /\ DOMAIN clients = {"A", "B"}
    /\ clients["A"].count = 2
    /\ deniedSince["A"]
    /\ clients["B"].count = 1
    /\ last.op = "is_allowed"
    /\ last.client = "A"
    /\ ~last.allowed

\* C24: for max_requests = N >= 1 and window_seconds >= 1, with sweeps made
\* anywhere between the calls, the allowed calls of one client within any
\* time interval of length window_seconds (its two end points included) are
\* at most 2 * N.
C24_BurstBound ==
    (requests >= 1 /\ window >= 1)
    => \A c \in Clients : AllowedWithin(recent[c], window + 1) <= 2 * requests

\* N = 2 calls at the start of one window and 2 more at the start of the next
C24_Witness ==
    /\ requests = 2
    /\ window = 1
    /\ recent["A"][0] = 2
    /\ recent["A"][1] = 2
    /\ clients["A"] = Entry(2, now)

C25_AfterSweep ==
    /\ requests >= 1
    /\ window >= 1
    /\ last.op = "is_allowed"
    /\ hlast.deniedAt >= 0
    /\ hlast.evicted
    /\ last.allowed

\* C27: between the steps of the dispatch coroutines, however they
\* interleave, 0 <= cleanup_counter < 100; the counter changes only by one
\* step up, or from 99 to 0 together with a sweep, so it never passes the
\* threshold and no sweep that is due is left out.
C27_CounterStep ==
    cleanup_counter' # cleanup_counter
    => \/ /\ cleanup_counter' = cleanup_counter + 1
          /\ cleanup_counter' < 100
          /\ sweeps' = sweeps
       \/ /\ cleanup_counter = 99
          /\ cleanup_counter' = 0
          /\ sweeps' = sweeps + 1
C27_CounterInvariant ==
    /\ [](0 <= cleanup_counter /\ cleanup_counter < 100)
    /\ [][C27_CounterStep]_vars

\* the counter back at 0 after the sweep, another request waiting for the
\* downstream handler
C27_Witness ==
    /\ cleanup_counter = 0
    /\ sweeps = 1
    /\ \E k \in Tasks : kpc[k] = "downstream"


\* ------------------------------------------------- claims, endless runs
\* C26: if time keeps advancing and enabled, non-exempt requests keep
\* arriving, the entry of a client that stopped sending requests is
\* eventually removed from the mapping, also when the arriving traffic is
\* denied.
C26_BoundedMemory ==
    (stopped /\ "A" \in DOMAIN clients) ~> ("A" \notin DOMAIN clients)

\* the same for max_requests >= 1
C26_PositiveLimit ==
    (requests >= 1 /\ stopped /\ "A" \in DOMAIN clients)
        ~> ("A" \notin DOMAIN clients)

=============================================================================
